---- MODULE Spec2Model ----
(***************************************************************************)
(* A model of onnx2keras.py: the layout-tagged tensors, the layout         *)
(* negotiation functions (ensure_data_format,                              *)
(* ensure_compatible_data_format), the decisions of op_conv and the graph  *)
(* translation driver onnx2keras.                                          *)
(*                                                                         *)
(* A tensor is a record                                                    *)
(*   data_format  the tag set by the code (tensor.data_format)             *)
(*   kind         "Constant" (an instance of the numpy subclass Constant), *)
(*                "Eager" (a concrete tensor of the target runtime) or     *)
(*                "Symbolic" (a node of the target runtime's graph)        *)
(*   shape        the physical shape                                       *)
(*   data         the physical buffer in row-major order; an element is    *)
(*                the label of an element of the exchange-format value     *)
(*   onnx         the value the exchange-format graph defines for this     *)
(*                tensor (shape and labels in exchange-format axis order); *)
(*                it is not program state, it is what the tag is judged by *)
(***************************************************************************)
EXTENDS Integers, Sequences, FiniteSets, TLC

VARIABLES fpc, ft, fcur, fhist, flast, fpair, cpc, cin, cplan,
          pc, idx, graph, ops, tensors, model_inputs, nodes, error, warnings, model,
          lpc, li, lcfg, layers, events, lerr

FmtVars == <<fpc, ft, fcur, fhist, flast, fpair>>
ConvVars == <<cpc, cin, cplan>>
DriverVars == <<pc, idx, graph, ops, tensors, model_inputs, nodes, error, warnings, model>>

LayerVars == <<lpc, li, lcfg, layers, events, lerr>>

vars == <<fpc, ft, fcur, fhist, flast, fpair, cpc, cin, cplan,
          pc, idx, graph, ops, tensors, model_inputs, nodes, error, warnings, model,
          lpc, li, lcfg, layers, events, lerr>>

\* ------------------------------------------------------------- bounds
\* largest extent of an axis of the tensors the conversions are tried on
MaxDim == 3
\* longest chain of conversions applied to one tensor
MaxConversions == 2
\* largest explicit padding of one side tried on op_conv
MaxPad == 1
\* most nodes of a translated graph
MaxNodes == 2
\* most channels of the input and of the output of a weighted layer
MaxChannels == 4
\* largest extent tried for an image axis of unknown extent
MaxSpatial == 5

\* ------------------------------------------------------- data formats
OnnxTensor == "OnnxTensor"
OnnxConstant == "OnnxConstant"
InterleavedImageBatch == "InterleavedImageBatch"

Formats == {OnnxTensor, OnnxConstant, InterleavedImageBatch}

\* issubclass over the hierarchy OnnxConstant < OnnxTensor, InterleavedImageBatch
issubclass(c1, c2) ==
    \/ c1 = c2
    \/ c1 = OnnxConstant /\ c2 = OnnxTensor

\* ------------------------------------------------- arrays (numpy / tf)
RECURSIVE Prod(_)
Prod(s) == IF Len(s) = 0 THEN 1 ELSE Head(s) * Prod(Tail(s))

Iota(n) == [i \in 1..n |-> i - 1]

\* row-major stride of axis i (1-based) of shape s
StrideOf(s, i) == Prod(SubSeq(s, i + 1, Len(s)))

\* coordinates (0-based) of flat index f (0-based) in shape s
Unravel(f, s) == [i \in 1..Len(s) |-> (f \div StrideOf(s, i)) % s[i]]

RECURSIVE RavelFrom(_, _, _)
RavelFrom(c, s, i) ==
    IF i > Len(s) THEN 0 ELSE c[i] * StrideOf(s, i) + RavelFrom(c, s, i + 1)

\* flat index (0-based) of coordinates c in shape s
Ravel(c, s) == RavelFrom(c, s, 1)

\* position (1-based) of axis number a (0-based) in the permutation perm
PosIn(perm, a) == CHOOSE i \in 1..Len(perm) : perm[i] = a

\* numpy.transpose / tf.transpose on (shape, data): axis i of the result is
\* axis perm[i] of the argument
TransposeShape(s, perm) == [i \in 1..Len(s) |-> s[perm[i] + 1]]

TransposeData(s, d, perm) ==
    LET os == TransposeShape(s, perm)
    IN  [j \in 1..Len(d) |->
            LET oc == Unravel(j - 1, os)
                ic == [k \in 1..Len(s) |-> oc[PosIn(perm, k - 1)]]
            IN  d[Ravel(ic, s) + 1]]

\* the result of a tf operation on a tensor of kind k
TfKind(k) == IF k = "Symbolic" THEN "Symbolic" ELSE "Eager"

\* tensor.transpose(perm) of a numpy Constant: a new Constant view
np_transpose(t, perm) ==
    [t EXCEPT !.shape = TransposeShape(t.shape, perm),
              !.data = TransposeData(t.shape, t.data, perm)]

\* tf.transpose(tensor, perm)
tf_transpose(t, perm) ==
    [t EXCEPT !.shape = TransposeShape(t.shape, perm),
              !.data = TransposeData(t.shape, t.data, perm),
              !.kind = TfKind(t.kind)]

\* tf.reshape(tensor, shape): the row-major buffer is kept
tf_reshape(t, newshape) ==
    [t EXCEPT !.shape = newshape, !.kind = TfKind(t.kind)]

\* ------------------------------------------------ ensure_data_format
NoTensor == [data_format |-> "none", kind |-> "none", shape |-> <<>>,
             data |-> <<>>, onnx |-> [shape |-> <<>>, data |-> <<>>]]

\* a result of a call: err = "" when it returned
Returned(t, w, p) == [err |-> "", t |-> t, warn |-> w, path |-> p]
Raised(e) == [err |-> e, t |-> NoTensor, warn |-> 0, path |-> "none"]

\* the permutations of lines 32, 41 and 51
ToInterleavedPerm == <<0, 2, 3, 1>>
ToOnnxPermMut == <<0, 2, 3, 1>>
ToOnnxPerm == <<0, 3, 1, 2>>

\* h == w == 1 or c == 1   (lines 38 and 48)
DegenerateMut(h, w, c) == h = 1 \/ c = 1
Degenerate(h, w, c) == (h = w /\ w = 1) \/ c = 1

\* the target shapes of the two reshapes (lines 39 and 49)
InterleavedShapeMut(n, c, h, w) == <<n, w, h, c>>
InterleavedShape(n, c, h, w) == <<n, h, w, c>>
OnnxShape(n, h, w, c) == <<n, c, h, w>>

ensure_data_format(tensor, format) ==
    IF issubclass(tensor.data_format, format)
    THEN Returned(tensor, 0, "same")
    ELSE IF tensor.data_format = OnnxConstant /\ format = InterleavedImageBatch
    THEN IF Len(tensor.shape) # 4 THEN Raised("AssertionError")
         \* only the numpy Constant has a method transpose
         ELSE IF tensor.kind # "Constant" THEN Raised("AttributeError")
         ELSE Returned([np_transpose(tensor, ToInterleavedPerm)
                           EXCEPT !.data_format = InterleavedImageBatch],
                       0, "transpose")
    ELSE IF tensor.data_format = OnnxTensor /\ format = InterleavedImageBatch
    THEN IF Len(tensor.shape) # 4 THEN Raised("AssertionError")
         ELSE LET n == tensor.shape[1]
                  c == tensor.shape[2]
                  h == tensor.shape[3]
                  w == tensor.shape[4]
              IN  IF Degenerate(h, w, c)
                  THEN Returned([tf_reshape(tensor, InterleavedShape(n, c, h, w))
                                    EXCEPT !.data_format = InterleavedImageBatch],
                                0, "reshape")
                  ELSE Returned([tf_transpose(tensor, ToInterleavedPerm)
                                    EXCEPT !.data_format = InterleavedImageBatch],
                                1, "transpose")
    ELSE IF tensor.data_format = InterleavedImageBatch /\ format = OnnxTensor
    THEN IF Len(tensor.shape) # 4 THEN Raised("AssertionError")
         ELSE LET n == tensor.shape[1]
                  h == tensor.shape[2]
                  w == tensor.shape[3]
                  c == tensor.shape[4]
              IN  IF Degenerate(h, w, c)
                  THEN Returned([tf_reshape(tensor, OnnxShape(n, h, w, c))
                                    EXCEPT !.data_format = OnnxTensor],
                                0, "reshape")
                  ELSE Returned([tf_transpose(tensor, ToOnnxPerm)
                                    EXCEPT !.data_format = OnnxTensor],
                                1, "transpose")
    ELSE Raised("NotImplementedError")

compatible_data_format(format1, format2) ==
    issubclass(format1, format2) \/ issubclass(format2, format1)

\* tf.broadcast_to(b, a.shape) of a rank-0 b: a new tensor of the target
\* runtime, on which no data_format has been set
tf_broadcast_to(b, shape) ==
    [data_format |-> "unset", kind |-> TfKind(b.kind), shape |-> shape,
     data |-> [i \in 1..Prod(shape) |-> b.data[1]], onnx |-> b.onnx]

\* a result of ensure_compatible_data_format: the pair, or the error raised
Pair(a, b, w) == [err |-> "", a |-> a, b |-> b, warn |-> w]
PairRaised(e) == [err |-> e, a |-> NoTensor, b |-> NoTensor, warn |-> 0]

ensure_compatible_data_format_mut(a, b) ==
    IF compatible_data_format(a.data_format, b.data_format)
    THEN Pair(a, b, 0)
    ELSE IF a.data_format # OnnxConstant
    THEN LET r == ensure_data_format(b, a.data_format)
         IN  IF r.err # "" THEN PairRaised(r.err) ELSE Pair(a, r.t, r.warn)
    ELSE LET r == ensure_data_format(a, b.data_format)
         IN  IF r.err # "" THEN PairRaised(r.err) ELSE Pair(r.t, b, r.warn)

ensure_compatible_data_format(a, b) ==
    IF compatible_data_format(a.data_format, b.data_format)
    THEN Pair(a, b, 0)
    ELSE IF b.data_format = OnnxConstant
    THEN IF Len(b.shape) = 0
         THEN Pair(a, tf_broadcast_to(b, a.shape), 0)
         ELSE LET r == ensure_data_format(b, a.data_format)
              IN  IF r.err # "" THEN PairRaised(r.err) ELSE Pair(a, r.t, r.warn)
    ELSE LET r == ensure_data_format(a, b.data_format)
         IN  IF r.err # "" THEN PairRaised(r.err) ELSE Pair(r.t, b, r.warn)

\* ---------------------------------------------------- tensors to try
\* The tensor that carries the exchange-format value of shape s (labels in
\* exchange-format order) under tag fmt: a Constant as make_constant builds it
\* (line 93), an Interleaved one in the axis order of make_input (line 99).
Tagged(fmt, s) ==
    LET value == [shape |-> s, data |-> Iota(Prod(s))]
    IN  IF fmt = InterleavedImageBatch
        THEN [data_format |-> fmt, kind |-> "Symbolic",
              shape |-> TransposeShape(s, ToInterleavedPerm),
              data |-> TransposeData(s, value.data, ToInterleavedPerm),
              onnx |-> value]
        ELSE [data_format |-> fmt,
              kind |-> IF fmt = OnnxConstant THEN "Constant" ELSE "Symbolic",
              shape |-> s, data |-> value.data, onnx |-> value]

Dims == 1..MaxDim
Shapes4 == {<<n, c, h, w>> : n \in Dims, c \in Dims, h \in Dims, w \in Dims}
Shapes2 == {<<n, c>> : n \in Dims, c \in Dims}

NoCall == [from |-> NoTensor, to |-> "none", res |-> Raised("none")]
NoPair == [a |-> NoTensor, b |-> NoTensor, res |-> PairRaised("none")]

\* the variables of op_conv while no convolution is planned
IdleConv == cpc = "idle" /\ cin = [err |-> "none"] /\ cplan = [err |-> "none"]

\* the variables of the conversions while none is tried
IdleFmt ==
    /\ fpc = "idle" /\ ft = NoTensor /\ fcur = NoTensor /\ fhist = <<>>
    /\ flast = NoCall /\ fpair = NoPair

\* the variables of onnx2keras while no graph is translated
NoModel == [inputs |-> <<>>, outputs |-> <<>>]
NoError == [type |-> "", at |-> "none"]
NoGraph == [initializer |-> <<>>, input |-> <<>>]

IdleDriver ==
    /\ pc = "idle" /\ idx = 0 /\ graph = NoGraph
    /\ ops = [make_tflite_compatible |-> FALSE]
    /\ tensors = <<>> /\ model_inputs = <<>> /\ nodes = <<>>
    /\ error = NoError /\ warnings = 0 /\ model = NoModel

\* the variables of the layers of one operator while none is built
IdleLayers ==
    /\ lpc = "idle" /\ li = 0 /\ lcfg = [op |-> "none"]
    /\ layers = <<>> /\ events = <<>> /\ lerr = ""

\* ------------------------------------ the conversions, one call a step
InitFmt ==
    /\ fpc = "start"
    /\ ft \in {Tagged(f, s) : f \in Formats, s \in Shapes4}
             \cup {Tagged(f, s) : f \in {OnnxTensor, OnnxConstant}, s \in Shapes2}
    /\ fcur = ft
    /\ fhist = <<>>
    /\ flast = NoCall
    /\ fpair = NoPair
    /\ IdleConv
    /\ IdleDriver
    /\ IdleLayers

\* fcur = ensure_data_format(fcur, format)
Convert ==
    /\ fpc \in {"start", "converted"}
    /\ Len(fhist) < MaxConversions
    /\ \E format \in Formats :
          LET r == ensure_data_format(fcur, format)
          IN  /\ flast' = [from |-> fcur, to |-> format, res |-> r]
              /\ fhist' = Append(fhist, format)
              /\ IF r.err = ""
                 THEN fcur' = r.t /\ fpc' = "converted"
                 ELSE fcur' = fcur /\ fpc' = "raised"
    /\ UNCHANGED <<ft, fpair>>
    /\ UNCHANGED ConvVars
    /\ UNCHANGED DriverVars
    /\ UNCHANGED LayerVars

\* the second operands of a binary operator whose first operand is a: the
\* same exchange-format shape under each tag (an image batch of as many
\* channels when a has rank 2), and a rank-0 Constant
Operands(a) ==
    {Tagged(f, a.onnx.shape) : f \in {OnnxTensor, OnnxConstant}}
    \cup {Tagged(InterleavedImageBatch,
                 IF Len(a.onnx.shape) = 4 THEN a.onnx.shape
                 ELSE <<a.onnx.shape[1], a.onnx.shape[2], 1, 1>>)}
    \cup {Tagged(OnnxConstant, <<>>)}

\* a, b = ensure_compatible_data_format(ft, b)
Reconcile ==
    /\ fpc = "start"
    /\ \E b \in Operands(ft) :
          fpair' = [a |-> ft, b |-> b, res |-> ensure_compatible_data_format(ft, b)]
    /\ fpc' = "reconciled"
    /\ UNCHANGED <<ft, fcur, fhist, flast>>
    /\ UNCHANGED ConvVars
    /\ UNCHANGED DriverVars
    /\ UNCHANGED LayerVars

NextFmt == Convert \/ Reconcile

\* ------------------------------------------------------------ op_conv
\* an extent that is not known when the graph is translated (line 670)
None == -1

\* lines 115-162: the class of the layer op_conv constructs
conv_class_mut(group, channels, make_tflite_compatible) ==
    IF group = channels THEN "DepthwiseConv2D"
    ELSE IF ~make_tflite_compatible \/ group = 1 THEN "Conv2D"
    ELSE "GroupedConv"

conv_class(group, channels, make_tflite_compatible) ==
    IF group > 1 /\ group = channels THEN "DepthwiseConv2D"
    ELSE IF ~make_tflite_compatible \/ group = 1 THEN "Conv2D"
    ELSE "GroupedConv"

\* lines 116, 119, 159: weights.transpose(...) per class
conv_weights_perm(class) ==
    IF class = "DepthwiseConv2D" THEN <<2, 3, 0, 1>> ELSE <<2, 3, 1, 0>>

NoPad == <<>>

\* line 176: ((top_pad, bottom_pad), (left_pad, right_pad))
zero_padding_mut(pads) == <<<<pads[1], pads[2]>>, <<pads[3], pads[4]>>>>
zero_padding(pads) == <<<<pads[1], pads[3]>>, <<pads[2], pads[4]>>>>

\* lines 166-178: conv_args['padding'] and the ZeroPadding2D layer, if any;
\* h and w are x.shape[1] and x.shape[2] of the interleaved input
conv_padding_mut(kernel_shape, strides, pads, dilations, h, w) ==
    IF pads = <<0, 0, 0, 0>>
    THEN [padding |-> "valid", pad |-> NoPad]
    ELSE IF /\ kernel_shape[1] = kernel_shape[2]
            /\ pads[1] = pads[2] /\ pads[2] = pads[3] /\ pads[3] = pads[4]
            /\ pads[1] * 2 + 1 = kernel_shape[1]
            /\ strides = <<1, 1>>
    THEN [padding |-> "same", pad |-> NoPad]
    ELSE IF /\ kernel_shape = <<3, 3>> /\ pads = <<1, 1, 1, 1>>
            /\ strides = <<2, 2>> /\ dilations = <<1, 1>>
            /\ ~(h = None \/ w = None)
            /\ h % 2 = 1 /\ w % 2 = 1
    THEN [padding |-> "same", pad |-> NoPad]
    ELSE [padding |-> "valid", pad |-> zero_padding(pads)]

\* the second same branch without the test of odd extents
conv_padding_any_extent(kernel_shape, strides, pads, dilations, h, w) ==
    IF pads = <<0, 0, 0, 0>>
    THEN [padding |-> "valid", pad |-> NoPad]
    ELSE IF /\ kernel_shape[1] = kernel_shape[2]
            /\ pads[1] = pads[2] /\ pads[2] = pads[3] /\ pads[3] = pads[4]
            /\ pads[1] * 2 + 1 = kernel_shape[1]
            /\ strides = <<1, 1>> /\ dilations = <<1, 1>>
    THEN [padding |-> "same", pad |-> NoPad]
    ELSE IF /\ kernel_shape = <<3, 3>> /\ pads = <<1, 1, 1, 1>>
            /\ strides = <<2, 2>> /\ dilations = <<1, 1>>
            /\ ~(h = None \/ w = None)
    THEN [padding |-> "same", pad |-> NoPad]
    ELSE [padding |-> "valid", pad |-> zero_padding(pads)]

conv_padding(kernel_shape, strides, pads, dilations, h, w) ==
    IF pads = <<0, 0, 0, 0>>
    THEN [padding |-> "valid", pad |-> NoPad]
    ELSE IF /\ kernel_shape[1] = kernel_shape[2]
            /\ pads[1] = pads[2] /\ pads[2] = pads[3] /\ pads[3] = pads[4]
            /\ pads[1] * 2 + 1 = kernel_shape[1]
            /\ strides = <<1, 1>> /\ dilations = <<1, 1>>
    THEN [padding |-> "same", pad |-> NoPad]
    ELSE IF /\ kernel_shape = <<3, 3>> /\ pads = <<1, 1, 1, 1>>
            /\ strides = <<2, 2>> /\ dilations = <<1, 1>>
            /\ ~(h = None \/ w = None)
            /\ h % 2 = 1 /\ w % 2 = 1
    THEN [padding |-> "same", pad |-> NoPad]
    ELSE [padding |-> "valid", pad |-> zero_padding(pads)]

NoPlan == [err |-> "none"]

\* lines 106-178 of op_conv on the shapes: xshape is the shape of the
\* interleaved x, wshape the shape of the Constant weights (out_channels,
\* in_channels / group, kH, kW), attrs the decoded attributes of the node
op_conv_plan(xshape, wshape, has_bias, attrs, make_tflite_compatible) ==
    IF Len(attrs.kernel_shape) # 2 THEN [err |-> "AssertionError"]
    ELSE IF attrs.kernel_shape # SubSeq(wshape, 3, 4) THEN [err |-> "AssertionError"]
    ELSE
    LET class == conv_class(attrs.group, xshape[4], make_tflite_compatible)
        wt == TransposeShape(wshape, conv_weights_perm(class))
        pd == conv_padding(attrs.kernel_shape, attrs.strides, attrs.pads,
                           attrs.dilations, xshape[2], xshape[3])
    IN  [err |-> "",
         ConvClass |-> class,
         weights_shape |-> wt,
         warn |-> IF class = "GroupedConv" THEN 1 ELSE 0,
         pad |-> pd.pad,
         conv_args |->
            [strides |-> attrs.strides,
             dilation_rate |-> attrs.dilations,
             kernel_size |-> attrs.kernel_shape,
             \* DepthwiseConv2D is given neither filters nor groups
             filters |-> IF class = "DepthwiseConv2D" THEN None ELSE wt[4],
             groups |-> IF class = "DepthwiseConv2D" THEN None ELSE attrs.group,
             use_bias |-> has_bias,
             padding |-> pd.padding]]

\* ------------------------------------------- operator implementations
\* what make_op returns (a list of tensors) or raises; warn counts the
\* OptimizationMissingWarning emitted on the way
OpReturned(outs, w) == [err |-> "", out |-> outs, warn |-> w]
OpRaised(e, w) == [err |-> e, out |-> <<>>, warn |-> w]

\* the label of an element that is not an element of the exchange-format value
Missing == 0 - 1

\* line 93: np.asarray(x).view(Constant), of an array of the given shape
make_constant(shape) ==
    [data_format |-> OnnxConstant, kind |-> "Constant", shape |-> shape,
     data |-> Iota(Prod(shape)),
     onnx |-> [shape |-> shape, data |-> Iota(Prod(shape))]]

\* the tag make_input sets (line 100)
InputTagMut == OnnxTensor
InputTag == InterleavedImageBatch

\* lines 95-101: the Input of the model is fed (batch, height, width, channel)
make_input(shape) ==
    IF Len(shape) # 4 THEN Raised("AssertionError")
    ELSE Returned(
           [data_format |-> InputTag, kind |-> "Symbolic",
            shape |-> <<shape[1], shape[3], shape[4], shape[2]>>,
            data |-> TransposeData(shape, Iota(Prod(shape)), <<0, 2, 3, 1>>),
            onnx |-> [shape |-> shape, data |-> Iota(Prod(shape))]],
           0, "input")

\* A layer of the target runtime that computes on (batch, height, width,
\* channel): its output is the exchange-format result in that axis order
\* when its input is the exchange-format operand in that axis order, and is
\* another value when it is not.
keras_image_layer(x, physshape, onnxshape) ==
    LET fed == /\ Len(x.onnx.shape) = 4
               /\ x.shape = TransposeShape(x.onnx.shape, <<0, 2, 3, 1>>)
               /\ x.data = TransposeData(x.onnx.shape, x.onnx.data, <<0, 2, 3, 1>>)
        size == Prod(onnxshape)
    IN  [data_format |-> "unset", kind |-> TfKind(x.kind), shape |-> physshape,
         data |-> IF fed /\ Prod(physshape) = size
                  THEN TransposeData(onnxshape, Iota(size), <<0, 2, 3, 1>>)
                  ELSE [i \in 1..Prod(physshape) |-> Missing],
         onnx |-> [shape |-> onnxshape, data |-> Iota(size)]]

\* the output extent of a convolution or pooling window along one axis, in
\* the target runtime ('valid' after a padding of before + after, or 'same')
\* and in the exchange format (explicit pads)
KerasOut(n, k, s, d, padding, before, after) ==
    IF padding = "same" THEN (n + s - 1) \div s
    ELSE ((n + before + after - (d * (k - 1) + 1)) \div s) + 1

OnnxOut(n, k, s, d, begin, end) ==
    ((n + begin + end - (d * (k - 1) + 1)) \div s) + 1

\* lines 180-183: the tensor the layer (after the ZeroPadding2D of line
\* 176, if any) returns for x, tagged by line 183
conv_output(x, weights, plan, attrs) ==
    LET a == plan.conv_args
        pad == IF plan.pad = NoPad THEN <<<<0, 0>>, <<0, 0>>>> ELSE plan.pad
        co == IF plan.ConvClass = "DepthwiseConv2D" THEN x.shape[4]
              ELSE IF plan.ConvClass = "GroupedConv"
              THEN a.groups * (a.filters \div a.groups)
              ELSE a.filters
    IN  [keras_image_layer(
            x,
            <<x.shape[1],
              KerasOut(x.shape[2], a.kernel_size[1], a.strides[1], a.dilation_rate[1],
                       a.padding, pad[1][1], pad[1][2]),
              KerasOut(x.shape[3], a.kernel_size[2], a.strides[2], a.dilation_rate[2],
                       a.padding, pad[2][1], pad[2][2]),
              co>>,
            <<x.onnx.shape[1], weights.shape[1],
              OnnxOut(x.onnx.shape[3], attrs.kernel_shape[1], attrs.strides[1],
                      attrs.dilations[1], attrs.pads[1], attrs.pads[3]),
              OnnxOut(x.onnx.shape[4], attrs.kernel_shape[2], attrs.strides[2],
                      attrs.dilations[2], attrs.pads[2], attrs.pads[4])>>)
           EXCEPT !.data_format = InterleavedImageBatch]

\* lines 109-189 once both operands are converted and lines 106-178 have
\* settled the layer; warn counts the warnings so far
conv_planned(x, weights, plan, inputs, attrs, warn) ==
    IF plan.err # "" THEN OpRaised(plan.err, warn)
    \* weights.transpose(...) is a method of the numpy Constant only
    ELSE IF weights.kind # "Constant" THEN OpRaised("AttributeError", warn)
    \* a depthwise layer holds one filter per input channel: set_weights
    \* refuses weights of another shape
    ELSE IF plan.ConvClass = "DepthwiseConv2D" /\ weights.shape[1] # x.shape[4]
    THEN OpRaised("ValueError", warn + plan.warn)
    \* bias.view(np.ndarray) is a method of the numpy Constant only
    ELSE IF Len(inputs) = 3 /\ inputs[3].kind # "Constant"
    THEN OpRaised("AttributeError", warn + plan.warn)
    ELSE OpReturned(<<conv_output(x, weights, plan, attrs)>>, warn + plan.warn)

\* lines 106-189 after the conversions wr of weights and xr of x
conv_converted(wr, xr, inputs, attrs, make_tflite_compatible) ==
    IF wr.err # "" THEN OpRaised(wr.err, 0)
    ELSE IF xr.err # "" THEN OpRaised(xr.err, 0)
    ELSE conv_planned(xr.t, wr.t,
                      op_conv_plan(xr.t.shape, wr.t.shape, Len(inputs) = 3, attrs,
                                   make_tflite_compatible),
                      inputs, attrs, xr.warn)

\* lines 103-189
op_conv(inputs, attrs, make_tflite_compatible) ==
    conv_converted(ensure_data_format(inputs[2], OnnxConstant),
                   ensure_data_format(inputs[1], InterleavedImageBatch),
                   inputs, attrs, make_tflite_compatible)

\* lines 191-194
op_relu(x) ==
    OpReturned(<<[x EXCEPT !.kind = TfKind(x.kind)]>>, 0)

\* lines 229-238 on the converted x
maxpool_output(y, k, st, pads) ==
    LET pad == IF pads = <<0, 0, 0, 0>> THEN <<<<0, 0>>, <<0, 0>>>>
               ELSE zero_padding(pads)
    IN  [keras_image_layer(
            y,
            <<y.shape[1],
              KerasOut(y.shape[2], k[1], st[1], 1, "valid", pad[1][1], pad[1][2]),
              KerasOut(y.shape[3], k[2], st[2], 1, "valid", pad[2][1], pad[2][2]),
              y.shape[4]>>,
            <<y.onnx.shape[1], y.onnx.shape[2],
              OnnxOut(y.onnx.shape[3], k[1], st[1], 1, pads[1], pads[3]),
              OnnxOut(y.onnx.shape[4], k[2], st[2], 1, pads[2], pads[4])>>)
           EXCEPT !.data_format = InterleavedImageBatch]

\* lines 228-238 after the conversion xr of x
maxpool_converted(xr, attrs) ==
    IF xr.err # "" THEN OpRaised(xr.err, 0)
    ELSE OpReturned(<<maxpool_output(xr.t, attrs["kernel_shape"], attrs["strides"],
                                     attrs["pads"])>>, xr.warn)

\* lines 225-240
op_maxpool(x, attrs) ==
    IF attrs["ceil_mode"] # 0 THEN OpRaised("AssertionError", 0)
    ELSE IF Len(attrs["kernel_shape"]) # 2 THEN OpRaised("NotImplementedError", 0)
    ELSE maxpool_converted(ensure_data_format(x, InterleavedImageBatch), attrs)

\* lines 425-430 after the conversion xr of x
globalaveragepool_converted(xr) ==
    IF xr.err # "" THEN OpRaised(xr.err, 0)
    ELSE IF Len(xr.t.shape) # 4 THEN OpRaised("NotImplementedError", xr.warn)
    ELSE OpReturned(
           <<[keras_image_layer(xr.t, <<xr.t.shape[1], 1, 1, xr.t.shape[4]>>,
                                <<xr.t.onnx.shape[1], xr.t.onnx.shape[2], 1, 1>>)
                 EXCEPT !.data_format = InterleavedImageBatch]>>, xr.warn)

\* lines 423-430
op_globalaveragepool(x) ==
    globalaveragepool_converted(ensure_data_format(x, InterleavedImageBatch))

\* lines 432-438: keras Flatten keeps the batch axis and the row-major buffer;
\* the exchange format's Flatten at axis 1 does the same to its value
op_flatten(x, attrs) ==
    IF attrs["axis"] = 1 /\ Len(x.shape) = 4 /\ x.shape[2] = 1 /\ x.shape[3] = 1
    THEN OpReturned(
           <<[x EXCEPT !.data_format = OnnxTensor,
                       !.kind = TfKind(x.kind),
                       !.shape = <<x.shape[1], Prod(Tail(x.shape))>>,
                       !.onnx = [shape |-> <<x.onnx.shape[1], Prod(Tail(x.onnx.shape))>>,
                                 data |-> x.onnx.data]]>>, 0)
    ELSE OpRaised("NotImplementedError", 0)

\* numpy broadcasting of two shapes: <<>> stands for no common shape
PadLeft(s, r) == [i \in 1..r |-> IF i <= r - Len(s) THEN 1 ELSE s[i - (r - Len(s))]]
MaxOf(a, b) == IF a >= b THEN a ELSE b

Broadcastable(s1, s2) ==
    LET r == MaxOf(Len(s1), Len(s2))
        p1 == PadLeft(s1, r)
        p2 == PadLeft(s2, r)
    IN  \A i \in 1..r : p1[i] = p2[i] \/ p1[i] = 1 \/ p2[i] = 1

BroadcastShape(s1, s2) ==
    LET r == MaxOf(Len(s1), Len(s2))
        p1 == PadLeft(s1, r)
        p2 == PadLeft(s2, r)
    IN  [i \in 1..r |-> MaxOf(p1[i], p2[i])]

\* the buffer of (s, d) broadcast to the shape os
BroadcastData(s, d, os) ==
    LET p == PadLeft(s, Len(os))
    IN  [j \in 1..Prod(os) |->
            LET oc == Unravel(j - 1, os)
                ic == [i \in 1..Len(os) |-> IF p[i] = 1 THEN 0 ELSE oc[i]]
            IN  d[Ravel(ic, p) + 1]]

\* position of the first element of seq equal to e, 0 when there is none
RECURSIVE IndexFrom(_, _, _)
IndexFrom(seq, e, i) ==
    IF i > Len(seq) THEN 0
    ELSE IF seq[i] = e THEN i
    ELSE IndexFrom(seq, e, i + 1)

\* An elementwise layer of the target runtime on two operands: the element
\* at a physical index combines the operands' elements at that index. The
\* exchange format combines the elements at each index of its values. ps
\* and ls are the broadcast shapes of the buffers and of the values, pp and
\* lp the pairs of elements combined at each index, ld the elements of the
\* exchange-format result.
merged(x1, x2, ps, pp, ls, lp, ld) ==
    [data_format |-> "unset",
     kind |-> IF x1.kind = "Symbolic" \/ x2.kind = "Symbolic"
              THEN "Symbolic" ELSE "Eager",
     shape |-> ps,
     data |-> [j \in 1..Len(pp) |->
                 IF IndexFrom(lp, pp[j], 1) = 0 THEN Missing
                 ELSE ld[IndexFrom(lp, pp[j], 1)]],
     onnx |-> [shape |-> ls, data |-> ld]]

Paired(s1, d1, s2, d2, os) ==
    [j \in 1..Prod(os) |->
        <<BroadcastData(s1, d1, os)[j], BroadcastData(s2, d2, os)[j]>>]

merge_shaped(x1, x2, ps, ls) ==
    merged(x1, x2, ps, Paired(x1.shape, x1.data, x2.shape, x2.data, ps),
           ls, Paired(x1.onnx.shape, x1.onnx.data, x2.onnx.shape, x2.onnx.data, ls),
           IF x1.onnx.shape = ls THEN x1.onnx.data
           ELSE IF x2.onnx.shape = ls THEN x2.onnx.data
           ELSE Iota(Prod(ls)))

\* keras _Merge.call: an operand of lower rank gets axes of extent 1 after
\* its first axis until the ranks agree
ExpandAt1(s, r) ==
    IF Len(s) >= r \/ Len(s) = 0 THEN s
    ELSE <<s[1]>> \o [i \in 1..(r - Len(s)) |-> 1] \o Tail(s)

\* keras _Merge.build: operands of rank 0 merge with each other only;
\* the others need equal batch extents and, the ranks made equal, extents
\* that are equal or 1
keras_mergeable(s1, s2) ==
    IF Len(s1) = 0 \/ Len(s2) = 0 THEN Len(s1) = Len(s2)
    ELSE /\ s1[1] = s2[1]
         /\ Broadcastable(ExpandAt1(s1, MaxOf(Len(s1), Len(s2))),
                          ExpandAt1(s2, MaxOf(Len(s1), Len(s2))))

keras_merge_expanded(x1, x2, s1, s2) ==
    merge_shaped([x1 EXCEPT !.shape = s1], [x2 EXCEPT !.shape = s2],
                 BroadcastShape(s1, s2),
                 BroadcastShape(x1.onnx.shape, x2.onnx.shape))

keras_merge(x1, x2) ==
    keras_merge_expanded(x1, x2,
                         ExpandAt1(x1.shape, MaxOf(Len(x1.shape), Len(x2.shape))),
                         ExpandAt1(x2.shape, MaxOf(Len(x1.shape), Len(x2.shape))))

\* lines 359-361 on the reconciled pair p
add_reconciled(p) ==
    IF p.err # "" THEN OpRaised(p.err, 0)
    ELSE IF ~keras_mergeable(p.a.shape, p.b.shape) THEN OpRaised("ValueError", p.warn)
    ELSE OpReturned(<<[keras_merge(p.a, p.b) EXCEPT !.data_format = p.a.data_format]>>,
                    p.warn)

\* lines 357-361 (op_sub, op_equal, op_and and op_greater are the same code
\* around another layer)
op_add(x1, x2) == add_reconciled(ensure_compatible_data_format(x1, x2))

\* the exchange format's Transpose of a value
onnx_transpose(v, perm) ==
    [shape |-> TransposeShape(v.shape, perm),
     data |-> TransposeData(v.shape, v.data, perm)]

\* the tag op_transpose sets on the tensor it returns unconverted (line 608)
RetaggedMut == InterleavedImageBatch
Retagged == OnnxTensor

\* lines 611-613 after the conversion xr of x
transpose_converted(x, xr, perm) ==
    IF xr.err # "" THEN OpRaised(xr.err, 0)
    ELSE OpReturned(<<[tf_transpose(xr.t, perm)
                          EXCEPT !.data_format = OnnxConstant,
                                 !.onnx = onnx_transpose(x.onnx, perm)]>>, 0)

\* lines 605-613
op_transpose(x, attrs) ==
    IF x.data_format = InterleavedImageBatch /\ attrs["perm"] = <<0, 2, 3, 1>>
    THEN OpReturned(<<[x EXCEPT !.data_format = Retagged,
                                !.kind = TfKind(x.kind),
                                !.onnx = onnx_transpose(x.onnx, attrs["perm"])]>>, 0)
    ELSE transpose_converted(x, ensure_data_format(x, OnnxConstant), attrs["perm"])

\* lines 471-474
op_constant(attrs) ==
    OpReturned(<<[attrs["value"] EXCEPT !.data_format = OnnxConstant]>>, 0)

\* ---------------------------------------------------------- dispatch
\* lines 78-90: AttributeProto a holds its value in the field its type names
SupportedAttrTypes == {"INT", "INTS", "FLOAT", "STRING", "TENSOR"}

parse_attr(a) ==
    IF a.type = "INT" THEN a.i
    ELSE IF a.type = "INTS" THEN a.ints
    ELSE IF a.type = "TENSOR" THEN make_constant(a.t)
    ELSE a.i

Names(attribute) == {attribute[i].name : i \in 1..Len(attribute)}

\* line 678: {a.name: ops.parse_attr(a) for a in node.attribute}
Decode(attribute) ==
    [n \in Names(attribute) |->
        parse_attr(attribute[CHOOSE i \in 1..Len(attribute) : attribute[i].name = n])]

\* the methods op_<name> of TfKerasOperations that are modelled, with the
\* keywords each takes and those it cannot be called without
Methods == {"conv", "relu", "maxpool", "globalaveragepool", "flatten", "add",
            "transpose", "constant"}

Keywords(m) ==
    IF m = "conv" THEN {"kernel_shape", "strides", "pads", "dilations", "group"}
    ELSE IF m = "maxpool" THEN {"kernel_shape", "pads", "strides", "ceil_mode"}
    ELSE IF m = "flatten" THEN {"axis"}
    ELSE IF m = "transpose" THEN {"perm"}
    ELSE IF m = "constant" THEN {"value"}
    ELSE {}

\* (every keyword of op_conv defaults to None; its body takes len() of
\* kernel_shape, compares group with 1 and indexes pads, which None refuses
\* with the same TypeError a missing argument raises; the graphs below give
\* strides and dilations to every Conv node as well)
RequiredKeywords(m) ==
    IF m = "maxpool" THEN {"kernel_shape", "pads", "strides"}
    ELSE Keywords(m)

\* op_type.lower()
Lower(op_type) ==
    IF op_type = "Conv" THEN "conv"
    ELSE IF op_type = "Relu" THEN "relu"
    ELSE IF op_type = "MaxPool" THEN "maxpool"
    ELSE IF op_type = "GlobalAveragePool" THEN "globalaveragepool"
    ELSE IF op_type = "Flatten" THEN "flatten"
    ELSE IF op_type = "Add" THEN "add"
    ELSE IF op_type = "Transpose" THEN "transpose"
    ELSE IF op_type = "Constant" THEN "constant"
    ELSE "lstm"

\* ceil_mode=0 is the default of op_maxpool
WithDefaults(m, attrs) ==
    IF m = "maxpool" /\ "ceil_mode" \notin DOMAIN attrs
    THEN [n \in DOMAIN attrs \cup {"ceil_mode"} |->
            IF n = "ceil_mode" THEN 0 ELSE attrs[n]]
    ELSE attrs

\* line 18 for the method name m: getattr(self, 'op_' + m)(*inputs, **attrs)
call_method(m, inputs, attrs, make_tflite_compatible) ==
    IF m \notin Methods THEN OpRaised("AttributeError", 0)
    ELSE IF ~(DOMAIN attrs \subseteq Keywords(m)) \/ ~(RequiredKeywords(m) \subseteq DOMAIN attrs)
    THEN OpRaised("TypeError", 0)
    ELSE IF m = "conv" THEN op_conv(inputs, attrs, make_tflite_compatible)
    ELSE IF m = "relu" THEN op_relu(inputs[1])
    ELSE IF m = "maxpool" THEN op_maxpool(inputs[1], WithDefaults(m, attrs))
    ELSE IF m = "globalaveragepool" THEN op_globalaveragepool(inputs[1])
    ELSE IF m = "flatten" THEN op_flatten(inputs[1], attrs)
    ELSE IF m = "add" THEN op_add(inputs[1], inputs[2])
    ELSE IF m = "transpose" THEN op_transpose(inputs[1], attrs)
    ELSE op_constant(attrs)

\* lines 13-18
make_op(op_type, inputs, attrs, make_tflite_compatible) ==
    call_method(Lower(op_type), inputs, attrs, make_tflite_compatible)

\* ------------------------------------------------- graphs to translate
\* Names of values are numbers: the initializers are 1..4, the graph input
\* is 5, and output j of the k-th node is 10 * k + j.
InputName == 5
OutputNames(k, n) == [j \in 1..n |-> 10 * k + j]

\* the shapes of the graph input (the last one is not an image batch)
InputShapes == {<<1, 2, 2, 2>>, <<1, 2, 1, 1>>, <<1, 1, 2, 2>>, <<1, 2>>}

\* initializers for an input of c channels: convolution weights, a bias, a
\* scalar and a per-channel constant
Initializers(c) ==
    <<[name |-> 1, dims |-> <<2, c, 3, 3>>],
      [name |-> 2, dims |-> <<2>>],
      [name |-> 3, dims |-> <<>>],
      [name |-> 4, dims |-> <<1, c, 1, 1>>]>>

\* graph.input lists the input, and with older exporters the initializers too
Graphs ==
    {[initializer |-> Initializers(s[2]),
      input |-> IF listed
                THEN <<[name |-> 1, shape |-> <<2, s[2], 3, 3>>],
                       [name |-> InputName, shape |-> s]>>
                ELSE <<[name |-> InputName, shape |-> s]>>] :
        s \in InputShapes, listed \in BOOLEAN}

AttrInt(n, v) == [name |-> n, type |-> "INT", i |-> v, ints |-> <<>>, t |-> <<>>]
AttrInts(n, v) == [name |-> n, type |-> "INTS", i |-> 0, ints |-> v, t |-> <<>>]
AttrTensor(n, dims) == [name |-> n, type |-> "TENSOR", i |-> 0, ints |-> <<>>, t |-> dims]
AttrOther(n, type) == [name |-> n, type |-> type, i |-> 0, ints |-> <<>>, t |-> <<>>]

NodeProto(op_type, input, attribute, nout) ==
    [op_type |-> op_type, input |-> input, attribute |-> attribute, nout |-> nout]

OfRank(env, r) == {n \in DOMAIN env : Len(env[n].onnx.shape) = r}

\* Conv nodes the exchange format allows over the values of env: weights of
\* the operand's channel count, an optional bias of one element per filter
ConvOperands(env) ==
    {in \in OfRank(env, 4) \X OfRank(env, 4) :
        env[in[2]].onnx.shape[2] = env[in[1]].onnx.shape[2]}

ConvInputs(env) ==
    ConvOperands(env) \cup
    {t \in OfRank(env, 4) \X OfRank(env, 4) \X OfRank(env, 1) :
        /\ <<t[1], t[2]>> \in ConvOperands(env)
        /\ env[t[3]].onnx.shape = <<env[t[2]].onnx.shape[1]>>}

ConvNodes(env) ==
    {NodeProto("Conv", in,
               <<AttrInts("kernel_shape", SubSeq(env[in[2]].onnx.shape, 3, 4)),
                 AttrInts("strides", st),
                 AttrInts("pads", IF env[in[2]].onnx.shape[3] = 3
                                  THEN <<1, 1, 1, 1>> ELSE <<0, 0, 0, 0>>),
                 AttrInts("dilations", <<1, 1>>),
                 AttrInt("group", 1)>>, 1) :
        in \in ConvInputs(env), st \in {<<1, 1>>, <<2, 2>>}}

\* MaxPool may declare a second output, the indices of the maxima
MaxPoolNodes(env) ==
    {NodeProto("MaxPool", <<x>>,
               <<AttrInts("kernel_shape", <<k, k>>), AttrInts("strides", <<k, k>>),
                 AttrInts("pads", <<0, 0, 0, 0>>)>>, n) :
        x \in {y \in OfRank(env, 4) : env[y].onnx.shape[3] >= 2 /\ env[y].onnx.shape[4] >= 2},
        k \in {2}, n \in {1, 2}}
    \cup
    {NodeProto("MaxPool", <<x>>,
               <<AttrInts("kernel_shape", <<1, 1>>), AttrInts("strides", <<1, 1>>),
                 AttrInts("pads", <<0, 0, 0, 0>>)>>, 1) : x \in OfRank(env, 4)}

UnaryNodes(env) ==
    {NodeProto("Relu", <<x>>, <<>>, 1) : x \in DOMAIN env}
    \cup {NodeProto("GlobalAveragePool", <<x>>, <<>>, 1) : x \in OfRank(env, 4)}
    \cup {NodeProto("Flatten", <<x>>, <<AttrInt("axis", 1)>>, 1) :
             x \in OfRank(env, 4) \cup OfRank(env, 2)}
    \cup {NodeProto("Transpose", <<x>>, <<AttrInts("perm", perm)>>, 1) :
             x \in OfRank(env, 4), perm \in {<<0, 2, 3, 1>>, <<0, 3, 1, 2>>}}
    \cup {NodeProto("Transpose", <<x>>, <<AttrInts("perm", <<1, 0>>)>>, 1) :
             x \in OfRank(env, 2)}

\* Add nodes on every pair of bound tensors the exchange format can
\* broadcast. Operands of different ranks and equal first extents are left
\* out: the Add layer aligns the shorter one at axis 1, the exchange format
\* at the last axis, so the layer computes another function there.
AlignedAlike(s1, s2) ==
    Len(s1) = Len(s2) \/ Len(s1) = 0 \/ Len(s2) = 0 \/ s1[1] # s2[1]

AddNodes(env) ==
    {NodeProto("Add", in, <<>>, 1) :
        in \in {p \in (DOMAIN env) \X (DOMAIN env) :
                  /\ Broadcastable(env[p[1]].onnx.shape, env[p[2]].onnx.shape)
                  /\ AlignedAlike(env[p[1]].onnx.shape, env[p[2]].onnx.shape)}}

\* a Constant node holds its value in one of several attributes; a node of
\* an operator that has no op_ method; a node that reads a name no
\* initializer, input or earlier node defines
OtherNodes(env) ==
    {NodeProto("Constant", <<>>, <<AttrTensor("value", <<>>)>>, 1),
     NodeProto("Constant", <<>>, <<AttrOther("value_floats", "FLOATS")>>, 1),
     NodeProto("Constant", <<>>, <<AttrInt("value_int", 1)>>, 1),
     NodeProto("LSTM", <<InputName>>, <<>>, 1),
     NodeProto("Relu", <<9>>, <<>>, 1)}

GraphNodes(env) ==
    ConvNodes(env) \cup MaxPoolNodes(env) \cup UnaryNodes(env) \cup AddNodes(env)
    \cup OtherNodes(env)

\* ------------------------------------------------------------ onnx2keras
\* zip(node.output, output_tensors) into the environment (lines 681-682)
Bind(env, names, ts) ==
    LET n == IF Len(names) <= Len(ts) THEN Len(names) ELSE Len(ts)
        new == {names[j] : j \in 1..n}
    IN  [k \in DOMAIN env \cup new |->
            IF k \in new THEN ts[CHOOSE j \in 1..n : names[j] = k] ELSE env[k]]

\* lines 677-678: the exception of the lookups and of parse_attr, "" if none
Decoding(env, node) ==
    IF \E i \in 1..Len(node.input) : node.input[i] \notin DOMAIN env
    THEN "KeyError"
    ELSE IF \E i \in 1..Len(node.attribute) :
                node.attribute[i].type \notin SupportedAttrTypes
    THEN "NotImplementedError"
    ELSE ""

\* line 679
Called(env, node, make_tflite_compatible) ==
    make_op(node.op_type, [i \in 1..Len(node.input) |-> env[node.input[i]]],
            Decode(node.attribute), make_tflite_compatible)

\* line 680 left out
CountedMut(r, nout) == r

\* line 680: assert len(output_tensors) == len(node.output)
Counted(r, nout) ==
    IF r.err = "" /\ Len(r.out) # nout THEN [r EXCEPT !.err = "AssertionError"]
    ELSE r

\* lines 677-680 for one node: what the environment is to be given, or the
\* exception that leaves the function
Dispatch(env, node, make_tflite_compatible) ==
    IF Decoding(env, node) # "" THEN OpRaised(Decoding(env, node), 0)
    ELSE Counted(Called(env, node, make_tflite_compatible), node.nout)

\* the loop over graph.input left out
AfterSeedMut(g, phase, i) ==
    IF phase = "seed_initializer" /\ i <= Len(g.initializer) THEN <<phase, i>>
    ELSE <<"propagate", 1>>

\* where the loops of lines 663-674 stand after item i of the current one
AfterSeed(g, phase, i) ==
    IF phase = "seed_initializer" /\ i <= Len(g.initializer) THEN <<phase, i>>
    ELSE IF phase = "seed_initializer" /\ Len(g.input) > 0 THEN <<"seed_input", 1>>
    ELSE IF phase = "seed_input" /\ i <= Len(g.input) THEN <<phase, i>>
    ELSE <<"propagate", 1>>

\* lines 658-661: a graph to translate, make_tflite_compatible at its default
Init ==
    /\ graph \in Graphs
    /\ ops \in [make_tflite_compatible : {FALSE}]
    /\ pc = AfterSeed(graph, "seed_initializer", 1)[1]
    /\ idx = AfterSeed(graph, "seed_initializer", 1)[2]
    /\ tensors = <<>>
    /\ model_inputs = <<>>
    /\ nodes = <<>>
    /\ error = NoError
    /\ warnings = 0
    /\ model = NoModel
    /\ IdleFmt
    /\ IdleConv
    /\ IdleLayers

\* lines 663-664
SeedInitializer ==
    /\ pc = "seed_initializer"
    /\ LET init == graph.initializer[idx]
       IN  tensors' = Bind(tensors, <<init.name>>, <<make_constant(init.dims)>>)
    /\ pc' = AfterSeed(graph, pc, idx + 1)[1]
    /\ idx' = AfterSeed(graph, pc, idx + 1)[2]
    /\ UNCHANGED <<graph, ops, model_inputs, nodes, error, warnings, model>>
    /\ UNCHANGED FmtVars
    /\ UNCHANGED ConvVars
    /\ UNCHANGED LayerVars

\* lines 666-674
SeedInput ==
    /\ pc = "seed_input"
    /\ LET input == graph.input[idx]
           r == make_input(input.shape)
       IN  IF input.name \in DOMAIN tensors
           THEN /\ pc' = AfterSeed(graph, pc, idx + 1)[1]
                /\ idx' = AfterSeed(graph, pc, idx + 1)[2]
                /\ UNCHANGED <<tensors, model_inputs, error>>
           ELSE IF r.err # ""
           THEN /\ pc' = "failed"
                /\ error' = [type |-> r.err, at |-> "input"]
                /\ UNCHANGED <<idx, tensors, model_inputs>>
           ELSE /\ tensors' = Bind(tensors, <<input.name>>, <<r.t>>)
                /\ model_inputs' = Append(model_inputs, r.t)
                /\ pc' = AfterSeed(graph, pc, idx + 1)[1]
                /\ idx' = AfterSeed(graph, pc, idx + 1)[2]
                /\ UNCHANGED error
    /\ UNCHANGED <<graph, ops, nodes, warnings, model>>
    /\ UNCHANGED FmtVars
    /\ UNCHANGED ConvVars
    /\ UNCHANGED LayerVars

\* lines 680-682 bound before the count of line 680 is checked
BoundMut(env, names, r) ==
    IF r.err = "" \/ (r.err = "AssertionError" /\ Len(r.out) > 0)
    THEN Bind(env, names, r.out) ELSE env

\* lines 680-682: the environment after the node; an exception leaves it
\* as it was
Bound(env, names, r) ==
    IF r.err = "" THEN Bind(env, names, r.out) ELSE env

\* lines 680-682 and the end of the loop body for a node whose dispatch
\* gave r; nodes keeps the nodes reached so far, each with the names of its
\* outputs and the number of tensors its operator returned
Advance(node, output, r) ==
    /\ nodes' = Append(nodes, [op_type |-> node.op_type,
                               input |-> node.input,
                               attribute |-> node.attribute,
                               output |-> output,
                               returned |-> Len(r.out)])
    /\ warnings' = warnings + r.warn
    /\ tensors' = Bound(tensors, output, r)
    /\ IF r.err # ""
       THEN /\ pc' = "failed"
            /\ error' = [type |-> r.err, at |-> "node"]
            /\ UNCHANGED idx
       ELSE /\ idx' = idx + 1
            /\ UNCHANGED <<pc, error>>

\* lines 676-682 for the next node of the graph
ProcessNode ==
    /\ pc = "propagate"
    /\ Len(nodes) < MaxNodes
    /\ \E node \in GraphNodes(tensors) :
         Advance(node, OutputNames(Len(nodes) + 1, node.nout),
                 Dispatch(tensors, node, ops.make_tflite_compatible))
    /\ UNCHANGED <<graph, ops, model_inputs, model>>
    /\ UNCHANGED FmtVars
    /\ UNCHANGED ConvVars
    /\ UNCHANGED LayerVars

\* lines 684-685: the graph outputs are one or two of the values the nodes
\* and the input define; the Model of the target runtime is built of
\* symbolic tensors only
GraphOutputs(env) ==
    LET defined == {n \in DOMAIN env : n >= InputName}
    IN  {<<n>> : n \in defined} \cup {p \in defined \X defined : p[1] < p[2]}

Finalize ==
    /\ pc = "propagate"
    /\ \E output \in GraphOutputs(tensors) :
         LET outputs == [j \in 1..Len(output) |-> tensors[output[j]]]
         IN  IF \E j \in 1..Len(outputs) : outputs[j].kind # "Symbolic"
             THEN /\ pc' = "failed"
                  /\ error' = [type |-> "ValueError", at |-> "model"]
                  /\ UNCHANGED model
             ELSE /\ pc' = "done"
                  /\ model' = [inputs |-> model_inputs, outputs |-> outputs]
                  /\ UNCHANGED error
    /\ UNCHANGED <<idx, graph, ops, tensors, model_inputs, nodes, warnings>>
    /\ UNCHANGED FmtVars
    /\ UNCHANGED ConvVars
    /\ UNCHANGED LayerVars

Next == SeedInitializer \/ SeedInput \/ ProcessNode \/ Finalize

Spec == Init /\ [][Next]_vars

\* ------------------------------------- op_conv on the shapes, one call
KernelSizes == {1, 3}
StrideSet == {<<1, 1>>, <<2, 2>>, <<1, 2>>}
DilationSet == {<<1, 1>>, <<2, 2>>}
SpatialSet == {None, 4, 5}
GroupSet == {1, 2}
ChannelSet == {1, 2, 4}
PadSet == 0..MaxPad

\* the shapes of a convolution node: weights of shape (out_channels,
\* in_channels / group, kH, kW) for an input of `channels` channels
ConvModes ==
    {m \in [group : GroupSet, channels : ChannelSet, mult : {1, 2},
            has_bias : BOOLEAN, tflite : BOOLEAN] : m.channels % m.group = 0}

InitConv ==
    /\ cpc = "start"
    /\ cin \in ConvModes
    /\ cplan = NoPlan
    /\ IdleFmt
    /\ IdleDriver
    /\ IdleLayers

\* the plan of op_conv for one node
ConvCall ==
    /\ cpc = "start"
    /\ \E kh \in KernelSizes, kw \in KernelSizes, st \in StrideSet, dl \in DilationSet,
          p1 \in PadSet, p2 \in PadSet, p3 \in PadSet, p4 \in PadSet,
          h \in SpatialSet, w \in SpatialSet :
          LET attrs == [kernel_shape |-> <<kh, kw>>, strides |-> st,
                        pads |-> <<p1, p2, p3, p4>>, dilations |-> dl,
                        group |-> cin.group]
              xshape == <<1, h, w, cin.channels>>
              wshape == <<cin.group * cin.mult, cin.channels \div cin.group, kh, kw>>
          IN  /\ cin' = [mode |-> cin, attrs |-> attrs, xshape |-> xshape,
                         wshape |-> wshape]
              /\ cplan' = op_conv_plan(xshape, wshape, cin.has_bias, attrs, cin.tflite)
    /\ cpc' = "planned"
    /\ UNCHANGED FmtVars
    /\ UNCHANGED DriverVars
    /\ UNCHANGED LayerVars

NextConv == ConvCall

SpecConv == InitConv /\ [][NextConv]_vars

SpecFmt == InitFmt /\ [][NextFmt]_vars

\* ------------------------------------------- the layers of one operator
\* numpy arrays as (shape, row-major data)
ndarray(shape, data) == [shape |-> shape, data |-> data]

\* a.transpose(perm)
ndarray_transpose(a, perm) ==
    ndarray(TransposeShape(a.shape, perm), TransposeData(a.shape, a.data, perm))

\* the shape of a[..., lo:hi]: numpy clamps both bounds to the extent
SliceShape(s, lo, hi) ==
    [s EXCEPT ![Len(s)] =
        IF (IF hi > @ THEN @ ELSE hi) > (IF lo > @ THEN @ ELSE lo)
        THEN (IF hi > @ THEN @ ELSE hi) - (IF lo > @ THEN @ ELSE lo)
        ELSE 0]

SliceData(a, ns, lo) ==
    [j \in 1..Prod(ns) |->
        a.data[Ravel([Unravel(j - 1, ns) EXCEPT ![Len(ns)] = @ + lo], a.shape) + 1]]

\* a[..., lo:hi]
SliceLast(a, lo, hi) ==
    ndarray(SliceShape(a.shape, lo, hi), SliceData(a, SliceShape(a.shape, lo, hi), lo))

\* the weights of the node as the exchange format stores them: Conv has
\* (out_channels, in_channels / group, kH, kW), ConvTranspose has
\* (in_channels, out_channels / group, kH, kW), Gemm with transB has
\* (out, in), BatchNormalization a vector; elements are labelled by position
OnnxWeights(cfg) ==
    IF cfg.op = "conv"
    THEN ndarray(<<cfg.filters, cfg.channels \div cfg.group>> \o cfg.kernel_shape,
                 Iota(cfg.filters * (cfg.channels \div cfg.group) * Prod(cfg.kernel_shape)))
    ELSE IF cfg.op = "convtranspose"
    THEN ndarray(<<cfg.channels, cfg.filters \div cfg.group>> \o cfg.kernel_shape,
                 Iota(cfg.channels * (cfg.filters \div cfg.group) * Prod(cfg.kernel_shape)))
    ELSE IF cfg.op = "gemm"
    THEN ndarray(<<cfg.filters, cfg.channels>>, Iota(cfg.filters * cfg.channels))
    ELSE ndarray(<<cfg.channels>>, Iota(cfg.channels))

\* the bias of the node: one element per output channel, labelled 1000 + o
OnnxBias(cfg) ==
    ndarray(<<cfg.filters>>, [o \in 1..cfg.filters |-> 1000 + o - 1])

\* running_mean and running_var of BatchNormalization
OnnxStatistic(cfg, base) ==
    ndarray(<<cfg.channels>>, [o \in 1..cfg.channels |-> base + o - 1])

\* the class of the layers the operator constructs
LayerClass(cfg) ==
    IF cfg.op = "conv"
    THEN (IF conv_class(cfg.group, cfg.channels, cfg.tflite) = "GroupedConv"
          THEN "Conv2D" ELSE conv_class(cfg.group, cfg.channels, cfg.tflite))
    ELSE IF cfg.op = "convtranspose" THEN "Conv2DTranspose"
    ELSE IF cfg.op = "gemm" THEN "Dense"
    ELSE "BatchNormalization"

\* the weights op_conv / op_convtranspose hold after weights.transpose(...)
Transposed(cfg) ==
    ndarray_transpose(OnnxWeights(cfg), conv_weights_perm(LayerClass(cfg)))

Decomposed(cfg) ==
    \/ cfg.op = "conv" /\ conv_class(cfg.group, cfg.channels, cfg.tflite) = "GroupedConv"
    \/ cfg.op = "convtranspose" /\ cfg.group # 1

Step(act, layer) == [act |-> act, layer |-> layer]

\* GroupedConv: __init__ constructs every sub-layer, __call__ invokes every
\* sub-layer, set_weights sets every sub-layer
BatchedMut(g) ==
    [k \in 1..(3 * g) |->
        Step(<<"construct", "invoke", "set_weights">>[((k - 1) % 3) + 1],
             ((k - 1) \div 3) + 1)]

Batched(g) ==
    [k \in 1..(3 * g) |->
        Step(<<"construct", "invoke", "set_weights">>[((k - 1) \div g) + 1],
             ((k - 1) % g) + 1)]

\* one layer after the other: construct, invoke, set_weights
Sequential(g) ==
    [k \in 1..(3 * g) |->
        Step(<<"construct", "invoke", "set_weights">>[((k - 1) % 3) + 1],
             ((k - 1) \div 3) + 1)]

\* the layer calls of the operator in the order of its statements
Program(cfg) ==
    IF cfg.op = "conv"
    THEN (IF Decomposed(cfg) THEN Batched(cfg.group) ELSE Sequential(1))
    ELSE IF cfg.op = "convtranspose" THEN Sequential(cfg.group)
    ELSE IF cfg.op = "gemm" THEN <<Step("construct", 1), Step("invoke", 1)>>
    ELSE Sequential(1)

\* the filters argument of the constructor
Filters(cfg) ==
    IF cfg.op = "conv"
    THEN (IF Decomposed(cfg) THEN Transposed(cfg).shape[4] \div cfg.group
          ELSE Transposed(cfg).shape[4])
    ELSE IF cfg.op = "convtranspose" THEN Transposed(cfg).shape[3]
    ELSE IF cfg.op = "gemm" THEN OnnxWeights(cfg).shape[1]
    ELSE 0

\* the groups argument of the constructor
Groups(cfg) ==
    IF cfg.op = "conv" /\ LayerClass(cfg) = "Conv2D" /\ ~Decomposed(cfg)
    THEN cfg.group ELSE 1

\* the weights keyword of the constructor (Dense only)
InitialWeights(cfg) ==
    IF cfg.op = "gemm"
    THEN <<ndarray_transpose(OnnxWeights(cfg), <<1, 0>>), OnnxBias(cfg)>>
    ELSE <<>>

NewLayer(cfg) ==
    [class |-> LayerClass(cfg), filters |-> Filters(cfg), groups |-> Groups(cfg),
     kernel_size |-> cfg.kernel_shape, use_bias |-> cfg.use_bias,
     initial |-> InitialWeights(cfg),
     built |-> FALSE, input |-> <<>>, wshapes |-> <<>>, weights |-> <<>>]

\* the channels of x the layer is invoked on: tf.split(x, group, axis=-1)[i]
\* for a decomposed operator, x itself otherwise
SplitMut(cfg, i) ==
    [c \in 1..(cfg.channels \div cfg.group) |-> c - 1]

Split(cfg, i) ==
    [c \in 1..(cfg.channels \div cfg.group) |-> i * (cfg.channels \div cfg.group) + c - 1]

LayerInput(cfg, k) ==
    IF Decomposed(cfg) THEN Split(cfg, k - 1) ELSE [c \in 1..cfg.channels |-> c - 1]

\* keras: the shapes of the variables a layer creates when it is built
\* for an input of n channels
KernelShape(l, n) ==
    IF l.class = "Conv2D" THEN l.kernel_size \o <<n \div l.groups, l.filters>>
    ELSE IF l.class = "DepthwiseConv2D" THEN l.kernel_size \o <<n, 1>>
    ELSE IF l.class = "Conv2DTranspose" THEN l.kernel_size \o <<l.filters, n>>
    ELSE <<n, l.filters>>

BiasShape(l, n) ==
    IF l.class = "DepthwiseConv2D" THEN <<n>> ELSE <<l.filters>>

WeightShapes(l, n) ==
    IF l.class = "BatchNormalization" THEN <<<<n>>, <<n>>, <<n>>, <<n>>>>
    ELSE IF l.use_bias THEN <<KernelShape(l, n), BiasShape(l, n)>>
    ELSE <<KernelShape(l, n)>>

\* keras: a convolution of `groups` groups needs both channel counts to be
\* multiples of groups
Buildable(l, n) ==
    l.class = "Conv2D" => (n % l.groups = 0 /\ l.filters % l.groups = 0)

\* keras: set_weights accepts a list of the variables' shapes only
Accepts(wshapes, ws) ==
    /\ Len(ws) = Len(wshapes)
    /\ \A j \in 1..Len(ws) : ws[j].shape = wshapes[j]

\* the list handed to set_weights of layer k
GroupedArgs(wt, bias, use_bias, i, n) ==
    IF use_bias
    THEN <<SliceLast(wt, i * n, (i + 1) * n), SliceLast(bias, i * n, (i + 1) * n)>>
    ELSE <<SliceLast(wt, i * n, (i + 1) * n)>>

\* n of GroupedConv.set_weights (self.filters) and of op_convtranspose
\* (weights.shape[3] // group)
SliceWidth(cfg) ==
    IF cfg.op = "conv" THEN Filters(cfg)
    ELSE Transposed(cfg).shape[4] \div cfg.group

SetWeightsArgs(cfg, k) ==
    IF cfg.op = "batchnormalization"
    THEN <<OnnxWeights(cfg), OnnxStatistic(cfg, 1000), OnnxStatistic(cfg, 2000),
           OnnxStatistic(cfg, 3000)>>
    ELSE IF Decomposed(cfg)
    THEN GroupedArgs(Transposed(cfg), OnnxBias(cfg), cfg.use_bias, k - 1, SliceWidth(cfg))
    ELSE IF cfg.use_bias THEN <<Transposed(cfg), OnnxBias(cfg)>>
    ELSE <<Transposed(cfg)>>

\* the operators to try: channel counts up to MaxChannels, the group
\* dividing both (as the exchange format requires)
KernelShapes == {<<1, 1>>, <<1, 2>>}

ConvConfigs ==
    {c \in [op : {"conv", "convtranspose"}, group : 1..MaxChannels,
            channels : 1..MaxChannels, filters : 1..MaxChannels,
            use_bias : BOOLEAN, tflite : BOOLEAN, kernel_shape : KernelShapes] :
        /\ c.channels % c.group = 0
        /\ c.filters % c.group = 0
        /\ (c.op = "convtranspose" => ~c.tflite)}

DenseConfigs ==
    [op : {"gemm"}, group : {1}, channels : 1..MaxChannels, filters : 1..MaxChannels,
     use_bias : {TRUE}, tflite : {FALSE}, kernel_shape : {<<>>}]

NormConfigs ==
    {c \in [op : {"batchnormalization"}, group : {1}, channels : 1..MaxChannels,
            filters : 1..MaxChannels, use_bias : {TRUE}, tflite : {FALSE},
            kernel_shape : {<<>>}] : c.filters = c.channels}

LayerConfigs == ConvConfigs \cup DenseConfigs \cup NormConfigs

InitLayers ==
    /\ lpc = "run"
    /\ li = 0
    /\ lcfg \in LayerConfigs
    /\ layers = <<>>
    /\ events = <<>>
    /\ lerr = ""
    /\ IdleFmt
    /\ IdleConv
    /\ IdleDriver

Event(step, ws) == [act |-> step.act, layer |-> step.layer, weights |-> ws]

\* the position after statement li + 1 returned / raised
Stepped(err) ==
    /\ li' = li + 1
    /\ lerr' = err
    /\ lpc' = IF err # "" THEN "failed"
              ELSE IF li + 1 = Len(Program(lcfg)) THEN "done" ELSE "run"
    /\ UNCHANGED lcfg
    /\ UNCHANGED FmtVars
    /\ UNCHANGED ConvVars
    /\ UNCHANGED DriverVars

\* Layer(**kwargs)
Construct ==
    /\ lpc = "run"
    /\ Program(lcfg)[li + 1].act = "construct"
    /\ layers' = Append(layers, NewLayer(lcfg))
    /\ events' = Append(events, Event(Program(lcfg)[li + 1], InitialWeights(lcfg)))
    /\ Stepped("")

\* keras Layer.__call__ on the first call: build the variables for the
\* input, then load the weights given to the constructor
Built(l, inp) ==
    [l EXCEPT !.built = TRUE, !.input = inp,
              !.wshapes = WeightShapes(l, Len(inp)),
              !.weights = IF Accepts(WeightShapes(l, Len(inp)), l.initial)
                          THEN l.initial ELSE <<>>]

InvokeError(l, inp) ==
    IF ~Buildable(l, Len(inp)) THEN "ValueError"
    ELSE IF l.initial # <<>> /\ ~Accepts(WeightShapes(l, Len(inp)), l.initial)
    THEN "ValueError"
    ELSE ""

\* layer(x)
Invoke ==
    /\ lpc = "run"
    /\ Program(lcfg)[li + 1].act = "invoke"
    /\ LET k == Program(lcfg)[li + 1].layer
       IN  /\ layers' = IF InvokeError(layers[k], LayerInput(lcfg, k)) = ""
                        THEN [layers EXCEPT ![k] = Built(@, LayerInput(lcfg, k))]
                        ELSE layers
           /\ events' = Append(events, Event(Program(lcfg)[li + 1], <<>>))
           /\ Stepped(InvokeError(layers[k], LayerInput(lcfg, k)))

\* layer.set_weights(ws)
SetWeights ==
    /\ lpc = "run"
    /\ Program(lcfg)[li + 1].act = "set_weights"
    /\ LET k == Program(lcfg)[li + 1].layer
       IN  /\ layers' = IF Accepts(layers[k].wshapes, SetWeightsArgs(lcfg, k))
                        THEN [layers EXCEPT ![k].weights = SetWeightsArgs(lcfg, k)]
                        ELSE layers
           /\ events' = Append(events, Event(Program(lcfg)[li + 1], SetWeightsArgs(lcfg, k)))
           /\ Stepped(IF Accepts(layers[k].wshapes, SetWeightsArgs(lcfg, k))
                      THEN "" ELSE "ValueError")

NextLayers == Construct \/ Invoke \/ SetWeights

SpecLayers == InitLayers /\ [][NextLayers]_vars

\* ------------------------------------------------------------ claims
\* what a tag says of a tensor: under InterleavedImageBatch the physical
\* tensor is the exchange-format value with its axes permuted by (0, 2, 3, 1),
\* under OnnxTensor and OnnxConstant it is the exchange-format value itself
TagDescribes(t) ==
    IF t.data_format = InterleavedImageBatch
    THEN /\ Len(t.onnx.shape) = 4
         /\ t.shape = TransposeShape(t.onnx.shape, <<0, 2, 3, 1>>)
         /\ t.data = TransposeData(t.onnx.shape, t.onnx.data, <<0, 2, 3, 1>>)
    ELSE t.shape = t.onnx.shape /\ t.data = t.onnx.data

\* y is x brought into the layout fmt
ConvertedInto(x, y, fmt) ==
    y.data_format = fmt /\ y.onnx = x.onnx /\ TagDescribes(y)

\* the last call converted a rank-4 tensor between OnnxTensor and
\* InterleavedImageBatch and returned
GenericInterleavedCall ==
    /\ flast.res.err = ""
    /\ Len(flast.from.shape) = 4
    /\ \/ flast.from.data_format = OnnxTensor /\ flast.to = InterleavedImageBatch
       \/ flast.from.data_format = InterleavedImageBatch /\ flast.to = OnnxTensor

\* height == width == 1 or channel == 1, of the exchange-format value
DegenerateValue(t) ==
    \/ t.onnx.shape[3] = 1 /\ t.onnx.shape[4] = 1
    \/ t.onnx.shape[2] = 1

RoundTripDone ==
    /\ fpc = "converted"
    /\ ft.data_format = OnnxTensor
    /\ Len(ft.shape) = 4
    /\ fhist = <<InterleavedImageBatch, OnnxTensor>>

\* C4: a rank-4 OnnxTensor converted to InterleavedImageBatch and back to
\* OnnxTensor has the shape and, at every index, the element it started
\* with, on the transpose path and on the reshape path.
C4_RoundTrip ==
    RoundTripDone => (fcur.shape = ft.shape /\ fcur.data = ft.data)

C4_Witness ==
    /\ RoundTripDone
    /\ flast.res.path = "reshape"
    /\ ft.shape[3] > 1 /\ ft.shape[4] > 1

\* C5: a conversion of a rank-4 tensor between OnnxTensor and
\* InterleavedImageBatch emits the warning exactly when it is not degenerate
\* (not (height == width == 1 or channel == 1)).
C5_WarningIffDataMovement ==
    GenericInterleavedCall =>
        (flast.res.warn = 1 <=> ~DegenerateValue(flast.from))

C5_Witness ==
    /\ GenericInterleavedCall
    /\ flast.res.warn = 0
    /\ flast.from.data_format = InterleavedImageBatch
    /\ flast.from.onnx.shape[2] > 1

\* C6: in the degenerate case the conversion between OnnxTensor and
\* InterleavedImageBatch returns the shape and the elements that the axis
\* permutation (0, 2, 3, 1), respectively (0, 3, 1, 2), returns.
C6_ReshapeIsPermutation ==
    (GenericInterleavedCall /\ DegenerateValue(flast.from)) =>
        LET perm == IF flast.to = InterleavedImageBatch
                    THEN <<0, 2, 3, 1>> ELSE <<0, 3, 1, 2>>
        IN  /\ flast.res.t.shape = TransposeShape(flast.from.shape, perm)
            /\ flast.res.t.data =
                   TransposeData(flast.from.shape, flast.from.data, perm)

C6_Witness ==
    /\ GenericInterleavedCall
    /\ flast.res.path = "reshape"
    /\ flast.to = InterleavedImageBatch
    /\ flast.from.shape[1] > 1 /\ flast.from.shape[3] > 1
    /\ flast.from.shape[4] > flast.from.shape[3]

\* ensure_compatible_data_format was called on operands of incompatible
\* tags, the second not a rank-0 Constant, and returned
ReconciledIncompatible ==
    /\ fpc = "reconciled"
    /\ fpair.res.err = ""
    /\ ~compatible_data_format(fpair.a.data_format, fpair.b.data_format)
    /\ ~(fpair.b.data_format = OnnxConstant /\ Len(fpair.b.shape) = 0)

\* C7 as claimed: of operands with incompatible tags, b not a rank-0
\* Constant, a is returned unchanged and b converted into a's layout unless
\* a is the Constant; only then is a converted into b's layout and b returned
\* unchanged.
C7_AsClaimed ==
    ReconciledIncompatible =>
        IF fpair.a.data_format # OnnxConstant
        THEN /\ fpair.res.a = fpair.a
             /\ ConvertedInto(fpair.b, fpair.res.b, fpair.a.data_format)
        ELSE /\ fpair.res.b = fpair.b
             /\ ConvertedInto(fpair.a, fpair.res.a, fpair.b.data_format)

\* C7 amended: b is converted into a's layout (a returned unchanged) exactly
\* when b is the Constant; otherwise a is converted into b's layout and b is
\* returned unchanged, whether a is a Constant or not. The returned tags are
\* compatible.
C7_ConvertsConstantElseFirst ==
    ReconciledIncompatible =>
        /\ IF fpair.b.data_format = OnnxConstant
           THEN /\ fpair.res.a = fpair.a
                /\ ConvertedInto(fpair.b, fpair.res.b, fpair.a.data_format)
           ELSE /\ fpair.res.b = fpair.b
                /\ ConvertedInto(fpair.a, fpair.res.a, fpair.b.data_format)
        /\ compatible_data_format(fpair.res.a.data_format, fpair.res.b.data_format)

C7_Witness ==
    /\ ReconciledIncompatible
    /\ fpair.a.data_format = InterleavedImageBatch
    /\ fpair.b.data_format = OnnxTensor
    /\ fpair.res.warn = 1
    /\ fpair.res.a.data_format = OnnxTensor

\* C9 as claimed: the construction is depthwise when group equals the
\* input channel count; otherwise an ordinary convolution when tflite mode is
\* off or group is 1; otherwise the decomposition into group convolutions.
C9_AsClaimed ==
    (cpc = "planned" /\ cplan.err = "") =>
        cplan.ConvClass =
            IF cin.attrs.group = cin.xshape[4] THEN "DepthwiseConv2D"
            ELSE IF ~cin.mode.tflite \/ cin.attrs.group = 1 THEN "Conv2D"
            ELSE "GroupedConv"

\* C9 amended: the construction is depthwise when group is greater than 1
\* and equals the input channel count; otherwise an ordinary convolution
\* when tflite mode is off or group is 1; otherwise the decomposition. It is
\* a function of (group, input channels, tflite mode) alone.
C9_ThreeWayConstruction ==
    (cpc = "planned" /\ cplan.err = "") =>
        cplan.ConvClass =
            IF cin.attrs.group > 1 /\ cin.attrs.group = cin.xshape[4]
            THEN "DepthwiseConv2D"
            ELSE IF ~cin.mode.tflite \/ cin.attrs.group = 1 THEN "Conv2D"
            ELSE "GroupedConv"

C9_Witness ==
    /\ cpc = "planned" /\ cplan.err = ""
    /\ cin.attrs.group = 1 /\ cin.xshape[4] = 1
    /\ cin.mode.tflite
    /\ cplan.ConvClass = "Conv2D"

\* the padding decision as the claim states it, from the attributes and the
\* input height and width alone
PaddingAsClaimed(k, s, d, p, h, w) ==
    IF p[1] = 0 /\ p[2] = 0 /\ p[3] = 0 /\ p[4] = 0
    THEN [padding |-> "valid", pad |-> NoPad]
    ELSE IF /\ p[1] = p[2] /\ p[1] = p[3] /\ p[1] = p[4]
            /\ k[1] = k[2] /\ 2 * p[1] + 1 = k[1]
            /\ s = <<1, 1>> /\ d = <<1, 1>>
    THEN [padding |-> "same", pad |-> NoPad]
    ELSE IF /\ k = <<3, 3>> /\ p = <<1, 1, 1, 1>> /\ s = <<2, 2>> /\ d = <<1, 1>>
            /\ h # None /\ w # None /\ h % 2 = 1 /\ w % 2 = 1
    THEN [padding |-> "same", pad |-> NoPad]
    ELSE [padding |-> "valid", pad |-> <<<<p[1], p[3]>>, <<p[2], p[4]>>>>]

\* C10: the padding mode and the zero-padding layer of op_conv are the
\* stated four-way function of kernel_shape, strides, dilations, pads and the
\* input height and width, whatever group, bias and tflite mode are.
C10_PaddingDecision ==
    (cpc = "planned" /\ cplan.err = "") =>
        LET want == PaddingAsClaimed(cin.attrs.kernel_shape, cin.attrs.strides,
                                     cin.attrs.dilations, cin.attrs.pads,
                                     cin.xshape[2], cin.xshape[3])
        IN  cplan.conv_args.padding = want.padding /\ cplan.pad = want.pad

C10_Witness ==
    /\ cpc = "planned" /\ cplan.err = ""
    /\ cin.attrs.kernel_shape = <<3, 3>> /\ cin.attrs.pads = <<1, 1, 1, 1>>
    /\ cin.attrs.strides = <<2, 2>> /\ cin.attrs.dilations = <<1, 1>>
    /\ cin.xshape[2] = 5 /\ cin.xshape[3] = 5
    /\ cin.mode.tflite /\ cin.attrs.group = 2 /\ cin.xshape[4] = 4
    /\ cplan.conv_args.padding = "same" /\ cplan.pad = NoPad

\* ------------------------------------------------ claims on same mode
CeilDiv(a, b) == (a + b - 1) \div b

\* the padding the target runtime's 'same' mode applies to an axis of
\* extent `in`: <<before, after>>
tf_same_total(in, kernel, stride, dilation) ==
    MaxOf((CeilDiv(in, stride) - 1) * stride + dilation * (kernel - 1) + 1 - in, 0)

tf_same_pads(in, kernel, stride, dilation) ==
    <<tf_same_total(in, kernel, stride, dilation) \div 2,
      tf_same_total(in, kernel, stride, dilation)
          - (tf_same_total(in, kernel, stride, dilation) \div 2)>>

\* the extents an axis of the input can have: the one known, or any
ExtentsOf(h) == IF h = None THEN 1..MaxSpatial ELSE {h}

\* on axis a (1 height, 2 width) of the planned call, for the extent `in`:
\* same mode pads as the node's pads say, and the output extent is the one
\* the exchange format computes of those pads
SameAsExplicit(a, in) ==
    /\ tf_same_pads(in, cin.attrs.kernel_shape[a], cin.attrs.strides[a],
                    cin.attrs.dilations[a])
          = <<cin.attrs.pads[a], cin.attrs.pads[a + 2]>>
    /\ CeilDiv(in, cin.attrs.strides[a])
          = ((in + cin.attrs.pads[a] + cin.attrs.pads[a + 2]
                 - (cin.attrs.dilations[a] * (cin.attrs.kernel_shape[a] - 1) + 1))
             \div cin.attrs.strides[a]) + 1

\* C16: whenever op_conv chooses padding 'same', on each image axis and for
\* every extent the axis can have, the padding same mode applies (total =
\* max((ceil(in / stride) - 1) * stride + kernel - in, 0), half rounded
\* down before, the rest after) is the node's explicit padding of each
\* side, and the output extent ceil(in / stride) is
\* floor((in + pad_begin + pad_end - kernel) / stride) + 1.
C16_SameIsExplicit ==
    (cpc = "planned" /\ cplan.err = "" /\ cplan.conv_args.padding = "same") =>
        \A a \in {1, 2} : \A in \in ExtentsOf(cin.xshape[a + 1]) : SameAsExplicit(a, in)

\* same mode chosen for a 3x3 kernel of stride 2 on a 5x5 image
C16_Witness ==
    /\ cpc = "planned" /\ cplan.err = "" /\ cplan.conv_args.padding = "same"
    /\ cin.attrs.strides = <<2, 2>> /\ cin.attrs.pads = <<1, 1, 1, 1>>
    /\ cin.xshape[2] = 5 /\ cin.xshape[3] = 5
    /\ ~cin.mode.tflite /\ cin.attrs.group = 1
    /\ tf_same_pads(5, 3, 2, 1) = <<1, 1>>

\* ------------------------------------------------- claims on the layers
\* keras: what a built and weighted Conv2D computes, per output channel f:
\* the sum over its group's input channels and kernel positions of
\* input * kernel[y, x, ci, f], plus bias[f] (Missing without a bias)
ConvTerms(l, f) ==
    {<<l.input[((f - 1) \div (l.filters \div l.groups)) * l.wshapes[1][3] + ci],
       y, x,
       l.weights[1].data[Ravel(<<y, x, ci - 1, f - 1>>, l.wshapes[1]) + 1]>> :
        ci \in 1..l.wshapes[1][3], y \in 0..(l.wshapes[1][1] - 1),
        x \in 0..(l.wshapes[1][2] - 1)}

LayerOutput(l) ==
    [f \in 1..l.filters |->
        [terms |-> ConvTerms(l, f),
         bias |-> IF l.use_bias THEN l.weights[2].data[f] ELSE Missing]]

\* tf.concat(convolved_splits, -1)
RECURSIVE ConcatOutputs(_)
ConcatOutputs(ls) ==
    IF Len(ls) = 0 THEN <<>> ELSE LayerOutput(Head(ls)) \o ConcatOutputs(Tail(ls))

\* the grouped convolution of the exchange format: output channel o belongs
\* to group o div (out_channels / g) and sums over that group's
\* in_channels / g input channels with W[o, ci, y, x], plus B[o]
ReferenceTerms(cfg, w, o) ==
    {<<((o - 1) \div (cfg.filters \div cfg.group)) * w.shape[2] + ci - 1,
       y, x,
       w.data[Ravel(<<o - 1, ci - 1, y, x>>, w.shape) + 1]>> :
        ci \in 1..w.shape[2], y \in 0..(w.shape[3] - 1), x \in 0..(w.shape[4] - 1)}

Reference(cfg) ==
    [o \in 1..cfg.filters |->
        [terms |-> ReferenceTerms(cfg, OnnxWeights(cfg), o),
         bias |-> IF cfg.use_bias THEN OnnxBias(cfg).data[o] ELSE Missing]]

\* the elements of an array, as a set
Elements(a) == {a.data[j] : j \in 1..Len(a.data)}

\* the lists handed to set_weights so far
WeightEvents == {j \in 1..Len(events) : events[j].act = "set_weights"}

\* the j-th array of every list handed to set_weights is a partition of `a`
Partitions(a, j) ==
    /\ UNION {Elements(events[e].weights[j]) : e \in WeightEvents} = Elements(a)
    /\ \A e1 \in WeightEvents, e2 \in WeightEvents :
          e1 # e2 => Elements(events[e1].weights[j]) \cap Elements(events[e2].weights[j]) = {}

DecomposedConv == lcfg.op = "conv" /\ Decomposed(lcfg)

\* C11: in the decomposed grouped convolution, sub-convolution i is invoked
\* on the i-th of g equal channel splits and is handed the kernel and bias
\* of output channels [i*n, (i+1)*n), n = out_channels / g; no set_weights
\* is refused; the slices partition kernel and bias; and the concatenated
\* outputs are the reference grouped convolution
C11_GroupedConvDecomposition ==
    DecomposedConv =>
        /\ lpc # "failed"
        /\ \A k \in 1..Len(layers) :
              layers[k].built =>
                  layers[k].input =
                      [c \in 1..(lcfg.channels \div lcfg.group) |->
                          (k - 1) * (lcfg.channels \div lcfg.group) + c - 1]
        /\ \A e \in WeightEvents :
              /\ events[e].weights[1].shape =
                    lcfg.kernel_shape \o
                        <<lcfg.channels \div lcfg.group, lcfg.filters \div lcfg.group>>
              /\ \A y \in 0..(lcfg.kernel_shape[1] - 1), x \in 0..(lcfg.kernel_shape[2] - 1),
                    ci \in 0..((lcfg.channels \div lcfg.group) - 1),
                    f \in 0..((lcfg.filters \div lcfg.group) - 1) :
                    events[e].weights[1].data[
                        Ravel(<<y, x, ci, f>>, events[e].weights[1].shape) + 1] =
                    OnnxWeights(lcfg).data[
                        Ravel(<<(events[e].layer - 1) * (lcfg.filters \div lcfg.group) + f,
                                ci, y, x>>, OnnxWeights(lcfg).shape) + 1]
              /\ lcfg.use_bias =>
                    events[e].weights[2].data =
                        [f \in 1..(lcfg.filters \div lcfg.group) |->
                            OnnxBias(lcfg).data[
                                (events[e].layer - 1) * (lcfg.filters \div lcfg.group) + f]]
        /\ lpc = "done" =>
              /\ Partitions(OnnxWeights(lcfg), 1)
              /\ lcfg.use_bias => Partitions(OnnxBias(lcfg), 2)
              /\ ConcatOutputs(layers) = Reference(lcfg)

C11_Witness ==
    /\ DecomposedConv
    /\ lpc = "done"
    /\ lcfg.group = 2 /\ lcfg.channels = 4 /\ lcfg.filters = 2
    /\ lcfg.use_bias /\ lcfg.kernel_shape = <<1, 2>>
    /\ Cardinality(WeightEvents) = 2

TransposedGroups == lcfg.op = "convtranspose" /\ lcfg.group > 1

\* the list handed to set_weights at event e holds the kernel of the input
\* channels of split i = layer - 1: element [y, x, co, ci] of the slice is
\* W[i * (in_channels / g) + ci, co, y, x]
OwnsKernelOfSplit(e) ==
    /\ events[e].weights[1].shape =
          lcfg.kernel_shape \o <<lcfg.filters \div lcfg.group, lcfg.channels \div lcfg.group>>
    /\ \A y \in 0..(lcfg.kernel_shape[1] - 1), x \in 0..(lcfg.kernel_shape[2] - 1),
          co \in 0..((lcfg.filters \div lcfg.group) - 1),
          ci \in 0..((lcfg.channels \div lcfg.group) - 1) :
          events[e].weights[1].data[Ravel(<<y, x, co, ci>>, events[e].weights[1].shape) + 1] =
          OnnxWeights(lcfg).data[
              Ravel(<<(events[e].layer - 1) * (lcfg.channels \div lcfg.group) + ci, co, y, x>>,
                    OnnxWeights(lcfg).shape) + 1]

\* the bias handed over at event e is that of the layer's own output
\* channels [i * n, (i + 1) * n), n = out_channels / g
OwnsBiasOfOutputs(e) ==
    /\ events[e].weights[2].shape = <<lcfg.filters \div lcfg.group>>
    /\ events[e].weights[2].data =
          [f \in 1..(lcfg.filters \div lcfg.group) |->
              OnnxBias(lcfg).data[(events[e].layer - 1) * (lcfg.filters \div lcfg.group) + f]]

\* C13: in op_convtranspose with group g > 1 the i-th transposed
\* convolution is invoked on the i-th channel split, is handed the kernel of
\* its input channels and the bias of exactly its out_channels / g output
\* channels, no set_weights is refused, and the bias slices partition the
\* bias, for all channel counts divisible by g.
C13_AsClaimed ==
    TransposedGroups =>
        /\ lpc # "failed"
        /\ \A k \in 1..Len(layers) :
              layers[k].built =>
                  layers[k].input =
                      [c \in 1..(lcfg.channels \div lcfg.group) |->
                          (k - 1) * (lcfg.channels \div lcfg.group) + c - 1]
        /\ \A e \in WeightEvents :
              /\ OwnsKernelOfSplit(e)
              /\ lcfg.use_bias => OwnsBiasOfOutputs(e)
        /\ (lpc = "done" /\ lcfg.use_bias) => Partitions(OnnxBias(lcfg), 2)

\* the positions in the log of the calls `act` of layer k
EventsOf(act, k) == {j \in 1..Len(events) : events[j].act = act /\ events[j].layer = k}

\* layer k is constructed once, invoked at most once and after that, and
\* set_weights is called on it at most once and after its invocation
OrderedCalls(k) ==
    /\ Cardinality(EventsOf("construct", k)) = 1
    /\ Cardinality(EventsOf("invoke", k)) <= 1
    /\ Cardinality(EventsOf("set_weights", k)) <= 1
    /\ \A c \in EventsOf("construct", k), i \in EventsOf("invoke", k) : c < i
    /\ \A s \in EventsOf("set_weights", k) : \E i \in EventsOf("invoke", k) : i < s

\* no other layer is constructed between the construction of layer k and
\* the call of its set_weights
NotInterleaved(k) ==
    \A c \in EventsOf("construct", k), j \in 1..Len(layers) :
        \A d \in EventsOf("construct", j) :
            (j # k /\ d > c) => \E s \in EventsOf("set_weights", k) : s < d

\* C14 as stated: every weighted layer is constructed, invoked once, then
\* has set_weights called on it, and no other layer is constructed between
\* its construction and its set_weights.
C14_AsClaimed ==
    \A k \in 1..Len(layers) :
        /\ OrderedCalls(k)
        /\ NotInterleaved(k)
        /\ lpc = "done" =>
              /\ Cardinality(EventsOf("invoke", k)) = 1
              /\ Cardinality(EventsOf("set_weights", k)) = 1

\* C14: every weighted layer is constructed, then invoked once, and its
\* weights are set after the invocation has built it: by set_weights, or
\* (Dense) by the invocation itself from the weights given to the
\* constructor, with no call of set_weights. No other layer is constructed
\* between a layer's construction and its set_weights, except in the
\* decomposed grouped convolution, whose g sub-layers are all constructed,
\* then all invoked, then all set, each in group order.
C14_ConstructInvokeSet ==
    /\ \A k \in 1..Len(layers) :
          /\ OrderedCalls(k)
          /\ ~DecomposedConv => NotInterleaved(k)
          /\ lpc = "done" =>
                /\ Cardinality(EventsOf("invoke", k)) = 1
                /\ layers[k].weights # <<>>
                /\ IF lcfg.op = "gemm"
                   THEN /\ EventsOf("set_weights", k) = {}
                        /\ \A c \in EventsOf("construct", k) : events[c].weights # <<>>
                   ELSE Cardinality(EventsOf("set_weights", k)) = 1
    /\ DecomposedConv =>
          \A j \in 1..Len(events) :
              /\ events[j].act =
                    <<"construct", "invoke", "set_weights">>[((j - 1) \div lcfg.group) + 1]
              /\ events[j].layer = ((j - 1) % lcfg.group) + 1

\* a decomposed grouped convolution of two groups is through: the second
\* sub-layer was constructed before the first was invoked
C14_Witness ==
    /\ DecomposedConv /\ lpc = "done" /\ lcfg.group = 2 /\ ~lcfg.use_bias
    /\ Len(events) = 6
    /\ events[2] = [act |-> "construct", layer |-> 2, weights |-> <<>>]
    /\ events[3].act = "invoke" /\ events[3].layer = 1

\* ---------------------------------------------- claims on onnx2keras
FailedAtNode == pc = "failed" /\ error.at = "node"

LastNode == nodes[Len(nodes)]

\* the nodes whose outputs lines 681-682 bound
Processed == {k \in 1..Len(nodes) : ~(FailedAtNode /\ k = Len(nodes))}

Classified ==
    LET node == LastNode
        resolved == \A i \in 1..Len(node.input) : node.input[i] \in DOMAIN tensors
        decodable == \A i \in 1..Len(node.attribute) :
                        node.attribute[i].type \in SupportedAttrTypes
        known == Lower(node.op_type) \in Methods
    IN  /\ ~resolved => error.type = "KeyError"
        /\ (resolved /\ ~decodable) => error.type = "NotImplementedError"
        /\ (resolved /\ decodable /\ ~known) => error.type = "AttributeError"
        /\ (resolved /\ decodable /\ known /\ node.op_type = "Flatten")
              => error.type = "NotImplementedError"
        /\ node.returned > 0
              => error.type = "AssertionError" /\ node.returned # Len(node.output)
        /\ error.type \in {"KeyError", "NotImplementedError", "AttributeError",
                           "TypeError", "AssertionError", "ValueError"}

C3_DispatchComplete ==
    /\ \A k \in Processed :
          /\ nodes[k].returned = Len(nodes[k].output)
          /\ \A j \in 1..Len(nodes[k].output) : nodes[k].output[j] \in DOMAIN tensors
    /\ (pc \in {"propagate", "done"} \/ (pc = "failed" /\ error.at # "input")) =>
          /\ \A i \in 1..Len(graph.initializer) :
                graph.initializer[i].name \in DOMAIN tensors
          /\ \A i \in 1..Len(graph.input) : graph.input[i].name \in DOMAIN tensors

\* two nodes were processed, the second reading the output of the first,
\* and a model was built of the second's output
C3_Witness ==
    /\ pc = "done" /\ Len(nodes) = 2
    /\ \E i \in 1..Len(nodes[2].input) : nodes[2].input[i] = nodes[1].output[1]
    /\ model.outputs = <<tensors[nodes[2].output[1]]>>

C12_AsClaimed ==
    \A n \in DOMAIN tensors :
        tensors[n].data_format = OnnxConstant => tensors[n].kind # "Symbolic"

\* the phases in the order of the function's text; a translation that
\* returned or raised is past all of them
PhaseRank(p) ==
    IF p = "seed_initializer" THEN 1
    ELSE IF p = "seed_input" THEN 2
    ELSE IF p = "propagate" THEN 3
    ELSE 4

InitializerNames == {graph.initializer[i].name : i \in 1..Len(graph.initializer)}

\* every initializer is bound as a Constant and every other graph input as
\* a symbolic input tagged InterleavedImageBatch
Seeded ==
    /\ \A n \in InitializerNames :
          /\ n \in DOMAIN tensors
          /\ tensors[n].data_format = OnnxConstant /\ tensors[n].kind = "Constant"
    /\ \A i \in 1..Len(graph.input) :
          graph.input[i].name \notin InitializerNames =>
              /\ graph.input[i].name \in DOMAIN tensors
              /\ tensors[graph.input[i].name].data_format = InterleavedImageBatch
              /\ tensors[graph.input[i].name].kind = "Symbolic"

C15_Step ==
    /\ PhaseRank(pc') >= PhaseRank(pc)
    /\ PhaseRank(pc) = 4 => UNCHANGED vars
    /\ PhaseRank(pc) < 3 => (nodes = <<>> /\ nodes' = <<>> /\ model' = NoModel)
    /\ nodes' # nodes =>
          /\ pc = "propagate"
          /\ Seeded
          /\ Len(nodes') = Len(nodes) + 1
          /\ SubSeq(nodes', 1, Len(nodes)) = nodes
          /\ idx = Len(nodes) + 1
          /\ \A k \in 1..Len(nodes) : \A j \in 1..Len(nodes[k].output) :
                nodes[k].output[j] \in DOMAIN tensors
          /\ model' = NoModel
          /\ pc' = "propagate" =>
                /\ idx' = idx + 1
                /\ \A j \in 1..Len(nodes'[Len(nodes')].output) :
                      nodes'[Len(nodes')].output[j] \in DOMAIN tensors'
    /\ model' # model =>
          /\ pc = "propagate" /\ pc' = "done"
          /\ nodes' = nodes /\ tensors' = tensors

\* C15: onnx2keras goes through seeding, propagation and finalization in
\* that order and never back: no node is dispatched before every
\* initializer is bound as a Constant and every other graph input as an
\* interleaved symbolic input; nodes are dispatched one at a time in the
\* order of the graph, the outputs of each being bound before the next is
\* looked at; the model is assembled in the step that ends propagation,
\* after which nothing is dispatched or bound.
C15_PhasesInOrder == [][C15_Step]_vars

\* both nodes of a graph with an initializer listed among its inputs were
\* dispatched and the model was assembled
C15_Witness ==
    /\ pc = "done" /\ Len(nodes) = 2 /\ idx = 3
    /\ Len(graph.input) = 2 /\ Seeded
    /\ model # NoModel

====
